---- MODULE Spec2Model ----
(***************************************************************************)
(* get_data of the HOMS plot utilities (src/MirrorPlots/plot_functions.py  *)
(* and src/plot_functions.py): the header duration, the body scan into the *)
(* channel lists, the gantry cutoff, the two time axes and the debug       *)
(* summary.                                                                *)
(*                                                                         *)
(* Text.  A character is a one-character string, a str is a sequence of    *)
(* fields: the pieces between its whitespace characters.  A str with k     *)
(* whitespace characters has k+1 fields, so "" is <<<<>>>> (one empty      *)
(* field) and "\n" is << <<>>, <<>> >>.  A field is a sequence of          *)
(* characters.  Floats are integers here (the alphabet has no '.', 'e',    *)
(* '_' or letters of inf/nan) and a point of a time axis is an exact       *)
(* fraction [num, den].                                                    *)
(***************************************************************************)
EXTENDS Integers, Sequences, FiniteSets, TLC

VARIABLES variant, file, start_line, gantry_cutoff, debug,
          pc, f, start_time_array, end_time_array, delta_t,
          line, cnt, chan, arr, tvals, tvals_gantry, nc_data, gantry_data,
          printed, error, result,
          calls, first, numpy_ragged, examined

vars == <<variant, file, start_line, gantry_cutoff, debug,
          pc, f, start_time_array, end_time_array, delta_t,
          line, cnt, chan, arr, tvals, tvals_gantry, nc_data, gantry_data,
          printed, error, result,
          calls, first, numpy_ragged, examined>>

inputs == <<variant, file, start_line, gantry_cutoff, debug>>

\* what is known of the calls made before the current one
session == <<calls, first>>

----------------------------------------------------------------------------
(* Bounds of the checked input space. *)

\* longest body (lines after line 4) of the files with freely mixed rows
MaxBody == 2
\* longest body of the files made of full and NC-only rows (cutoff cases)
MaxLong == 6
\* most calls of get_data made one after the other on one file
MaxCalls == 2

----------------------------------------------------------------------------
(* Python text primitives. *)

DigitChars == <<"0", "1", "2", "3", "4", "5", "6", "7", "8", "9">>

IsDigit(c) == \E d \in 1..10 : DigitChars[d] = c

DigitVal(c) == (CHOOSE d \in 1..10 : DigitChars[d] = c) - 1

\* the str "" : what readline returns at end of file
EmptyStr == << <<>> >>

\* truth value of a str: `while line`
Truthy(s) == s # EmptyStr

\* str.split() with no argument: the non-empty fields, in order
split(s) == SelectSeq(s, LAMBDA fld : fld # <<>>)

RECURSIVE split_on(_, _)
\* token.split(sep): the pieces between the separators, empty ones kept
split_on(tok, sep) ==
    IF \A i \in 1..Len(tok) : tok[i] # sep THEN <<tok>>
    ELSE LET k == CHOOSE i \in 1..Len(tok) :
                      tok[i] = sep /\ \A j \in 1..(i-1) : tok[j] # sep
         IN <<SubSeq(tok, 1, k-1)>> \o split_on(SubSeq(tok, k+1, Len(tok)), sep)

RECURSIVE DigitsValue(_)
DigitsValue(ds) ==
    IF ds = <<>> THEN 0
    ELSE 10 * DigitsValue(SubSeq(ds, 1, Len(ds)-1)) + DigitVal(ds[Len(ds)])

\* the digits of a token once an optional sign is taken off
Unsigned(tok) ==
    IF tok # <<>> /\ tok[1] \in {"-", "+"} THEN Tail(tok) ELSE tok

\* float(tok) succeeds (raises no ValueError)
FloatOk(tok) ==
    /\ Unsigned(tok) # <<>>
    /\ \A i \in 1..Len(Unsigned(tok)) : IsDigit(Unsigned(tok)[i])

\* float(tok) when it succeeds
float(tok) ==
    IF tok[1] = "-" THEN 0 - DigitsValue(Unsigned(tok))
    ELSE DigitsValue(Unsigned(tok))

\* seq[j] of Python (0-based) raises no IndexError
HasIndex(seq, j) == j < Len(seq)

\* seq[j] of Python (0-based)
At(seq, j) == seq[j + 1]

\* f.readline() on a handle whose next line is number pos
readline(lines, pos) == IF pos <= Len(lines) THEN lines[pos] ELSE EmptyStr

\* linspace without its end point: n points k*d/n, as endpoint=False gives
linspaceOpen(d, n) ==
    [k \in 1..n |-> IF n = 1 THEN [num |-> 0, den |-> 1]
                    ELSE [num |-> (k-1) * d, den |-> n]]

\* np.linspace(0, d, n): n points, the k-th is k*d/(n-1); [0] when n = 1
linspace(d, n) ==
    [k \in 1..n |-> IF n = 1 THEN [num |-> 0, den |-> 1]
                    ELSE [num |-> (k-1) * d, den |-> n - 1]]

\* Slice with the element at index stop kept as well
SliceInclusive(a, stop) ==
    SubSeq(a, 1, IF stop + 1 < Len(a) THEN stop + 1 ELSE Len(a))

\* a[:stop] for stop >= 0
Slice(a, stop) == SubSeq(a, 1, IF stop < Len(a) THEN stop ELSE Len(a))

----------------------------------------------------------------------------
(* The two variants of get_data and their channel layouts. *)

Variants == {"MirrorPlots", "root"}

\* the lists of src/MirrorPlots/plot_functions.py with the token each reads,
\* in the order of the appends
LayoutMirrorPlots ==
    << <<"act_pos", 1>>, <<"set_pos", 3>>, <<"act_velo", 5>>,
       <<"set_velo", 7>>, <<"pos_diff", 9>>, <<"x_gantry", 11>>,
       <<"y_gantry", 13>>, <<"act_pos_slave", 15>>, <<"set_pos_slave", 17>>,
       <<"act_velo_slave", 19>>, <<"set_velo_slave", 21>>,
       <<"pos_diff_slave", 23>> >>

\* the lists of src/plot_functions.py with the token each reads
LayoutRoot ==
    << <<"act_pos", 1>>, <<"set_pos", 3>>, <<"act_velo", 5>>,
       <<"set_velo", 7>>, <<"pos_diff", 9>>, <<"x_gantry", 11>>,
       <<"y_gantry", 13>>, <<"act_pos_slave", 15>>,
       <<"act_velo_slave", 17>>, <<"pos_diff_slave", 19>> >>

Layout(v) == IF v = "MirrorPlots" THEN LayoutMirrorPlots ELSE LayoutRoot

Channels(v) == {Layout(v)[k][1] : k \in 1..Len(Layout(v))}

\* the lists cut at gantry_stop_idx when gantry_cutoff is set
CutChannelsMirrorPlots ==
    {"x_gantry", "y_gantry", "act_pos_slave", "set_pos_slave",
     "act_velo_slave", "set_velo_slave", "pos_diff_slave"}

\* CutChannelsRoot with the slave lists cut too, as the other file does
CutChannelsRootSlaves ==
    {"x_gantry", "y_gantry", "act_pos_slave", "act_velo_slave",
     "pos_diff_slave"}

\* src/plot_functions.py cuts the two gantry lists only
CutChannelsRoot == {"x_gantry", "y_gantry"}

CutChannels(v) ==
    IF v = "MirrorPlots" THEN CutChannelsMirrorPlots ELSE CutChannelsRoot

\* the rows of nc_data after the time axis, in order
NcOrderMirrorPlots ==
    <<"act_pos", "set_pos", "act_velo", "set_velo", "pos_diff",
      "act_pos_slave", "set_pos_slave", "act_velo_slave", "set_velo_slave",
      "pos_diff_slave">>

NcOrderRoot ==
    <<"act_pos", "set_pos", "act_velo", "set_velo", "pos_diff",
      "act_pos_slave", "act_velo_slave", "pos_diff_slave">>

NcOrder(v) == IF v = "MirrorPlots" THEN NcOrderMirrorPlots ELSE NcOrderRoot

\* the rows of gantry_data after the time axis, in order
GantryOrder == <<"x_gantry", "y_gantry">>

RECURSIVE TryAppendSkip(_, _, _, _)
\* TryAppend with a try around each append: a failing token is skipped and
\* the appends after it still run
TryAppendSkip(ch, line_array, lay, k) ==
    IF k > Len(lay) THEN ch
    ELSE IF HasIndex(line_array, lay[k][2]) /\ FloatOk(At(line_array, lay[k][2]))
         THEN TryAppendSkip([ch EXCEPT ![lay[k][1]] =
                                 Append(@, float(At(line_array, lay[k][2])))],
                            line_array, lay, k + 1)
         ELSE TryAppendSkip(ch, line_array, lay, k + 1)

RECURSIVE TryAppend(_, _, _, _)
\* the try block of the scan: the appends run in order and the first token
\* that is missing (IndexError) or not numeric (ValueError) ends the block;
\* `except: pass` keeps what was appended before it
TryAppend(ch, line_array, lay, k) ==
    IF k > Len(lay) THEN ch
    ELSE IF HasIndex(line_array, lay[k][2]) /\ FloatOk(At(line_array, lay[k][2]))
         THEN TryAppend([ch EXCEPT ![lay[k][1]] =
                             Append(@, float(At(line_array, lay[k][2])))],
                        line_array, lay, k + 1)
         ELSE ch

\* float(parts[p]) raises: parts[p] is missing or is not numeric
PartFails(parts, p) == ~HasIndex(parts, p) \/ ~FloatOk(At(parts, p))

\* the three float() calls on the ':'-pieces of a time token succeed
PartsOk(tok) == \A p \in 0..2 : ~PartFails(split_on(tok, ":"), p)

\* the exception of the first of the three float() calls that raises
PartsError(tok) ==
    LET parts == split_on(tok, ":")
        p == CHOOSE i \in 0..2 :
                 PartFails(parts, i) /\ \A j \in 0..(i-1) : ~PartFails(parts, j)
    IN IF HasIndex(parts, p) THEN "ValueError" ELSE "IndexError"

\* lines 61-71 raise nothing on the two timestamp token arrays
HeaderOk(start_arr, end_arr) ==
    /\ HasIndex(start_arr, 6) /\ HasIndex(end_arr, 6)
    /\ PartsOk(At(start_arr, 6)) /\ PartsOk(At(end_arr, 6))

\* the exception lines 61-71 raise, in the order the code evaluates them
HeaderError(start_arr, end_arr) ==
    IF ~HasIndex(start_arr, 6) \/ ~HasIndex(end_arr, 6) THEN "IndexError"
    ELSE IF ~PartsOk(At(start_arr, 6)) THEN PartsError(At(start_arr, 6))
    ELSE PartsError(At(end_arr, 6))

\* (hr*3600) + (min*60.0) + sec of the time token of a timestamp line
Seconds(time_array) ==
    LET parts == split_on(At(time_array, 6), ":")
    IN float(At(parts, 0)) * 3600 + float(At(parts, 1)) * 60
         + float(At(parts, 2))

\* Duration as a span that is never negative
DurationAbs(start_arr, end_arr) ==
    IF Seconds(end_arr) < Seconds(start_arr)
    THEN Seconds(start_arr) - Seconds(end_arr)
    ELSE Seconds(end_arr) - Seconds(start_arr)

\* delta_t = end - start
Duration(start_arr, end_arr) == Seconds(end_arr) - Seconds(start_arr)

----------------------------------------------------------------------------
(* The files get_data is run on. *)

\* the caller's start_line: plot_data passes 22
CallerStartLine == 22

\* gantry_stop_idx = len(act_pos) // 5
GantryRatio == 5

Ch(d) == DigitChars[d + 1]

Num(n) == IF n < 10 THEN <<Ch(n)>> ELSE <<Ch(n \div 10), Ch(n % 10)>>

\* a label token: not numeric
Label == <<"x">>

\* the value token at 0-based index j of the row written on line v: it
\* names the line and the column, so that a value moved to another row or
\* another channel is seen
ValueTok(v, j) == <<Ch(v % 10), Ch(((j - 1) \div 2) % 10)>>

\* a row with a label at every even index and a value at every odd index
FullRow(v) ==
    [i \in 1..24 |-> IF (i - 1) % 2 = 0 THEN Label ELSE ValueTok(v, i - 1)]

RowKinds == {"full", "nc", "blank", "bad5", "bad13", "t20"}

\* the tokens of a body row of each kind
Row(kind, v) ==
    CASE kind = "full"  -> FullRow(v)
      [] kind = "nc"    -> SubSeq(FullRow(v), 1, 10)
      [] kind = "blank" -> <<>>
      [] kind = "bad5"  -> [FullRow(v) EXCEPT ![6] = Label]
      [] kind = "bad13" -> [FullRow(v) EXCEPT ![14] = <<"-">>]
      [] kind = "t20"   -> SubSeq(FullRow(v), 1, 20)

\* the text of a line: the tokens with one blank between them and "\n"
TextLine(tokens) ==
    IF tokens = <<>> THEN << <<>>, <<>> >> ELSE tokens \o << <<>> >>

Time(h, m, s) == Num(h) \o <<":">> \o Num(m) \o <<":">> \o Num(s)

\* a timestamp line made of labels, the time token at index 6
HeaderLine(t) == TextLine(<<Label, Label, Label, Label, Label, Label, t>>)

\* a timestamp line that is also a full row, the time token at index 6
RowHeaderLine(v, t) == TextLine([FullRow(v) EXCEPT ![7] = t])

\* four header lines of text
HeadText ==
    <<TextLine(<<Label, Label>>), TextLine(<<Label>>),
      HeaderLine(Time(10, 0, 0)), HeaderLine(Time(10, 0, 10))>>

\* four header lines that are full rows too
HeadRows ==
    <<TextLine(FullRow(1)), TextLine(FullRow(2)),
      RowHeaderLine(3, Time(10, 0, 0)), RowHeaderLine(4, Time(10, 0, 5))>>

\* the body lines of the given kinds, after nhead lines
Body(kinds, nhead) ==
    [i \in 1..Len(kinds) |-> TextLine(Row(kinds[i], nhead + i))]

SeqsOfLen(S, lo, hi) == UNION {[1..k -> S] : k \in lo..hi}

\* text header, then up to MaxBody rows of any kind
FilesMixed ==
    {HeadText \o Body(ks, 4) : ks \in SeqsOfLen(RowKinds, 0, MaxBody)}

\* row header, then GantryRatio..MaxLong rows that are full or NC-only
FilesLong ==
    {HeadRows \o Body(ks, 4) : ks \in SeqsOfLen({"full", "nc"}, GantryRatio, MaxLong)}

\* the time tokens of the header-varied files: well formed, and malformed
GoodTriples == {<<10, 0, 0>>, <<10, 0, 5>>, <<9, 59, 58>>, <<0, 1, 0>>}

GoodTimes == {Time(t[1], t[2], t[3]) : t \in GoodTriples}

BadTimes ==
    {<<"1", ":", "2">>, <<"1", ":", "x", ":", "3">>, <<"1", ":", ":", "3">>,
     <<"x">>, <<"1", ":", "2", ":", "3", ":", "x">>}

\* a timestamp line with time token t, or with no token at index 6 at all
StampLines ==
    {HeaderLine(t) : t \in GoodTimes \cup BadTimes}
      \cup {TextLine(<<Label, Label, Label, Label, Label, Label>>)}

\* what lines 1 and 2 may be
IgnoredLines ==
    {TextLine(<<>>), TextLine(FullRow(1)), HeaderLine(Time(1, 1, 1))}

\* every pair of timestamp lines after two blank lines, and every pair of
\* well-formed ones after each choice of lines 1 and 2, before one row
FilesHeader ==
    {<<TextLine(<<>>), TextLine(<<>>), l3, l4>> \o Body(<<"full">>, 4) :
        l3 \in StampLines, l4 \in StampLines}
    \cup
    {<<l1, l2, HeaderLine(t3), HeaderLine(t4)>> \o Body(<<"full">>, 4) :
        l1 \in IgnoredLines, l2 \in IgnoredLines,
        t3 \in GoodTimes, t4 \in GoodTimes}

\* files of fewer than four lines
FilesShort == {SubSeq(HeadRows, 1, n) : n \in 0..3}

\* CallerStartLine - 1 full rows (the timestamps on lines 3 and 4), then two
\* body rows, the last line without its "\n"
FilesCaller ==
    {[i \in 1..(CallerStartLine - 1) |->
         IF i \in {3, 4} THEN RowHeaderLine(i, Time(10, 0, i))
         ELSE TextLine(FullRow(i))]
       \o <<TextLine(Row(k, CallerStartLine)), FullRow(CallerStartLine + 1)>> :
     k \in {"full", "bad5"}}

Files == FilesMixed \cup FilesLong \cup FilesHeader \cup FilesShort
            \cup FilesCaller

StartLines == {1, 5, 6, CallerStartLine}

\* the files get_data is called on more than once
SessionFiles ==
    {HeadText \o Body(kinds, 4) : kinds \in {<<"full">>, <<"full", "nc">>}}

----------------------------------------------------------------------------
(* get_data as a state machine. *)

NoHandle == [open |-> FALSE, pos |-> 0]

\* no call was made before the current one
NoCall == [made |-> FALSE]

Init ==
    /\ variant \in Variants
    /\ file \in Files
    /\ start_line \in StartLines
    /\ gantry_cutoff \in BOOLEAN
    /\ debug \in BOOLEAN
    /\ pc = "start"
    /\ f = NoHandle
    /\ start_time_array = <<>>
    /\ end_time_array = <<>>
    /\ delta_t = 0
    /\ line = EmptyStr
    /\ cnt = 0
    /\ chan = [c \in Channels(variant) |-> <<>>]
    /\ arr = [c \in Channels(variant) |-> <<>>]
    /\ tvals = <<>>
    /\ tvals_gantry = <<>>
    /\ nc_data = <<>>
    /\ gantry_data = <<>>
    /\ printed = <<>>
    /\ error = "none"
    /\ result = <<>>
    /\ calls = 0
    /\ first = NoCall
    /\ numpy_ragged = "unknown"
    /\ examined = <<>>

\* f = open(fname, 'r')
OpenHeader ==
    /\ pc = "start"
    /\ f' = [open |-> TRUE, pos |-> 1]
    /\ pc' = "read_header"
    /\ UNCHANGED <<inputs, session, numpy_ragged, examined, start_time_array, end_time_array, delta_t, line,
                   cnt, chan, arr, tvals, tvals_gantry, nc_data, gantry_data,
                   printed, error, result>>

\* the four readline() calls and the two split() calls
ReadHeader ==
    /\ pc = "read_header"
    /\ start_time_array' = split(readline(file, f.pos + 2))
    /\ end_time_array' = split(readline(file, f.pos + 3))
    /\ f' = [f EXCEPT !.pos = f.pos + 4]
    /\ pc' = "close_header"
    /\ UNCHANGED <<inputs, session, numpy_ragged, examined, delta_t, line, cnt, chan, arr, tvals, tvals_gantry,
                   nc_data, gantry_data, printed, error, result>>

\* CloseHeader with the close() forgotten
CloseHeaderLeak ==
    /\ pc = "close_header"
    /\ pc' = "parse_header"
    /\ UNCHANGED <<inputs, session, numpy_ragged, examined, f, start_time_array, end_time_array, delta_t, line,
                   cnt, chan, arr, tvals, tvals_gantry, nc_data, gantry_data,
                   printed, error, result>>

\* f.close()
CloseHeader ==
    /\ pc = "close_header"
    /\ f' = NoHandle
    /\ pc' = "parse_header"
    /\ UNCHANGED <<inputs, session, numpy_ragged, examined, start_time_array, end_time_array, delta_t, line,
                   cnt, chan, arr, tvals, tvals_gantry, nc_data, gantry_data,
                   printed, error, result>>

\* the time arithmetic, when it raises nothing
ParseHeader ==
    /\ pc = "parse_header"
    /\ HeaderOk(start_time_array, end_time_array)
    /\ delta_t' = Duration(start_time_array, end_time_array)
    /\ pc' = "open_body"
    /\ UNCHANGED <<inputs, session, numpy_ragged, examined, f, start_time_array, end_time_array, line, cnt,
                   chan, arr, tvals, tvals_gantry, nc_data, gantry_data,
                   printed, error, result>>

\* ParseHeaderRaise with the exception caught and a zero duration assumed
ParseHeaderSwallow ==
    /\ pc = "parse_header"
    /\ ~HeaderOk(start_time_array, end_time_array)
    /\ delta_t' = 0
    /\ pc' = "open_body"
    /\ UNCHANGED <<inputs, session, numpy_ragged, examined, f, start_time_array, end_time_array, line, cnt,
                   chan, arr, tvals, tvals_gantry, nc_data, gantry_data,
                   printed, error, result>>

\* the time arithmetic, when an index or a float() raises: the exception
\* leaves get_data
ParseHeaderRaise ==
    /\ pc = "parse_header"
    /\ ~HeaderOk(start_time_array, end_time_array)
    /\ error' = HeaderError(start_time_array, end_time_array)
    /\ pc' = "raised"
    /\ UNCHANGED <<inputs, session, numpy_ragged, examined, f, start_time_array, end_time_array, delta_t, line,
                   cnt, chan, arr, tvals, tvals_gantry, nc_data, gantry_data,
                   printed, result>>

\* the empty lists, the second open, the first readline and cnt = 1
OpenBody ==
    /\ pc = "open_body"
    /\ chan' = [c \in Channels(variant) |-> <<>>]
    /\ line' = readline(file, 1)
    /\ f' = [open |-> TRUE, pos |-> 2]
    /\ cnt' = 1
    /\ pc' = "scan"
    /\ UNCHANGED <<inputs, session, numpy_ragged, examined, start_time_array, end_time_array, delta_t, arr,
                   tvals, tvals_gantry, nc_data, gantry_data, printed, error,
                   result>>

\* one turn of `while line`: the next readline, cnt += 1, and the try
\* block when cnt >= start_line
ScanLine ==
    /\ pc = "scan"
    /\ Truthy(line)
    /\ line' = readline(file, f.pos)
    /\ f' = [f EXCEPT !.pos = f.pos + 1]
    /\ cnt' = cnt + 1
    /\ chan' = IF cnt' >= start_line
               THEN TryAppend(chan, split(line'), Layout(variant), 1)
               ELSE chan
    /\ examined' = IF cnt' >= start_line THEN Append(examined, cnt')
                                         ELSE examined
    /\ UNCHANGED <<inputs, session, numpy_ragged, pc, start_time_array, end_time_array, delta_t, arr,
                   tvals, tvals_gantry, nc_data, gantry_data, printed, error,
                   result>>

\* `while line` is false: the with block closes the file
ExitScan ==
    /\ pc = "scan"
    /\ ~Truthy(line)
    /\ f' = NoHandle
    /\ pc' = "build"
    /\ UNCHANGED <<inputs, session, numpy_ragged, examined, start_time_array, end_time_array, delta_t, line,
                   cnt, chan, arr, tvals, tvals_gantry, nc_data, gantry_data,
                   printed, error, result>>

\* the arrays when gantry_cutoff is set: the cut lists end at stop
Cutoff(a, v, stop) ==
    [c \in DOMAIN a |-> IF c \in CutChannels(v) THEN Slice(a[c], stop)
                        ELSE a[c]]

\* the arrays of the lists (np.asarray keeps length and order), after the
\* cutoff when gantry_cutoff is set
Arrays(ch, v, cutoff) ==
    IF cutoff THEN Cutoff(ch, v, Len(ch["act_pos"]) \div GantryRatio) ELSE ch

\* BuildArrays with the gantry axis taken as every fifth point of tvals
BuildArraysDecimated ==
    /\ pc = "build"
    /\ arr' = Arrays(chan, variant, gantry_cutoff)
    /\ tvals' = linspace(delta_t, Len(chan["act_pos"]))
    /\ tvals_gantry' =
          [k \in 1..Len(arr'["x_gantry"]) |->
              IF GantryRatio * (k - 1) + 1 <= Len(tvals')
              THEN tvals'[GantryRatio * (k - 1) + 1]
              ELSE [num |-> delta_t, den |-> 1]]
    /\ pc' = "pack"
    /\ UNCHANGED <<inputs, session, numpy_ragged, examined, f, start_time_array, end_time_array, delta_t, line,
                   cnt, chan, nc_data, gantry_data, printed, error, result>>

\* np.asarray of the lists, tvals, the cutoff, tvals_gantry.  The names
\* of the lists are rebound to the arrays: chan keeps the lists as parsed
BuildArrays ==
    /\ pc = "build"
    /\ arr' = Arrays(chan, variant, gantry_cutoff)
    /\ tvals' = linspace(delta_t, Len(chan["act_pos"]))
    /\ tvals_gantry' = linspace(delta_t, Len(arr'["x_gantry"]))
    /\ pc' = "pack"
    /\ UNCHANGED <<inputs, session, numpy_ragged, examined, f, start_time_array, end_time_array, delta_t, line,
                   cnt, chan, nc_data, gantry_data, printed, error, result>>

\* the rows np.asarray([...]) is given
NcRows(tv, a, v) == <<tv>> \o [i \in 1..Len(NcOrder(v)) |-> a[NcOrder(v)[i]]]

GantryRows(tv, a) == <<tv>> \o [i \in 1..Len(GantryOrder) |-> a[GantryOrder[i]]]

\* the rows are not all of one length
Ragged(rows) == \E i, j \in 1..Len(rows) : Len(rows[i]) # Len(rows[j])

\* nc_data and gantry_data.  On rows of one length this is a 2-d array; on
\* ragged rows numpy before 1.24 builds an array of row objects
PackArrays ==
    /\ pc = "pack"
    /\ IF Ragged(NcRows(tvals, arr, variant)) \/ Ragged(GantryRows(tvals_gantry, arr))
       THEN numpy_ragged \in {"unknown", "object"} /\ numpy_ragged' = "object"
       ELSE numpy_ragged' = numpy_ragged
    /\ nc_data' = NcRows(tvals, arr, variant)
    /\ gantry_data' = GantryRows(tvals_gantry, arr)
    /\ pc' = "debug"
    /\ UNCHANGED <<inputs, session, examined, f, start_time_array, end_time_array, delta_t, line,
                   cnt, chan, arr, tvals, tvals_gantry, printed, error,
                   result>>

\* on ragged rows numpy from 1.24 on raises ValueError instead; the numpy in
\* use is the same one for every call of a session
PackArraysRaise ==
    /\ pc = "pack"
    /\ Ragged(NcRows(tvals, arr, variant)) \/ Ragged(GantryRows(tvals_gantry, arr))
    /\ numpy_ragged \in {"unknown", "ValueError"}
    /\ numpy_ragged' = "ValueError"
    /\ error' = "ValueError"
    /\ pc' = "raised"
    /\ UNCHANGED <<inputs, session, examined, f, start_time_array, end_time_array, delta_t, line,
                   cnt, chan, arr, tvals, tvals_gantry, nc_data, gantry_data,
                   printed, result>>

\* what the prints before the ratio show
DebugSummary(a, v, d) ==
    << <<"Measurement time", d>>,
       <<"Pos", Len(a["act_pos"])>>, <<"Velo", Len(a["act_velo"])>>,
       <<"POSDIFF", Len(a["pos_diff"])>>,
       <<"X gantry", Len(a["x_gantry"])>>, <<"Y gantry", Len(a["y_gantry"])>> >>
    \o (IF v = "MirrorPlots"
        THEN << <<"Slave Pos", Len(a["act_pos_slave"])>>,
                <<"Slave Velo", Len(a["act_velo_slave"])>>,
                <<"Slave POSDIFF", Len(a["pos_diff_slave"])>> >>
        ELSE <<>>)

\* debug is off: nothing is printed
SkipDebug ==
    /\ pc = "debug"
    /\ ~debug
    /\ pc' = "return"
    /\ UNCHANGED <<inputs, session, numpy_ragged, examined, f, start_time_array, end_time_array, delta_t, line,
                   cnt, chan, arr, tvals, tvals_gantry, nc_data, gantry_data,
                   printed, error, result>>

\* debug is on: the summary, then len(act_velo)/len(x_gantry)
DebugPrint ==
    /\ pc = "debug"
    /\ debug
    /\ Len(arr["x_gantry"]) # 0
    /\ printed' = DebugSummary(arr, variant, delta_t)
                    \o << <<"Ratio", [num |-> Len(arr["act_velo"]),
                                      den |-> Len(arr["x_gantry"])]>> >>
    /\ pc' = "return"
    /\ UNCHANGED <<inputs, session, numpy_ragged, examined, f, start_time_array, end_time_array, delta_t, line,
                   cnt, chan, arr, tvals, tvals_gantry, nc_data, gantry_data,
                   error, result>>

\* debug is on and x_gantry is empty: the division raises after the
\* summary was printed
DebugRaise ==
    /\ pc = "debug"
    /\ debug
    /\ Len(arr["x_gantry"]) = 0
    /\ printed' = DebugSummary(arr, variant, delta_t)
    /\ error' = "ZeroDivisionError"
    /\ pc' = "raised"
    /\ UNCHANGED <<inputs, session, numpy_ragged, examined, f, start_time_array, end_time_array, delta_t, line,
                   cnt, chan, arr, tvals, tvals_gantry, nc_data, gantry_data,
                   result>>

\* return (nc_data, gantry_data)
Return ==
    /\ pc = "return"
    /\ result' = <<nc_data, gantry_data>>
    /\ pc' = "returned"
    /\ UNCHANGED <<inputs, session, numpy_ragged, examined, f, start_time_array, end_time_array, delta_t, line,
                   cnt, chan, arr, tvals, tvals_gantry, nc_data, gantry_data,
                   printed, error>>

\* the caller calls get_data again on the same file: the locals of the new
\* call are fresh, the file on disk and the numpy in use are what they were
NextCall ==
    /\ pc \in {"returned", "raised"}
    /\ file \in SessionFiles
    /\ calls + 1 < MaxCalls
    /\ calls' = calls + 1
    /\ first' = IF calls = 0
                THEN [made |-> TRUE, start_line |-> start_line,
                      gantry_cutoff |-> gantry_cutoff, debug |-> debug,
                      returned |-> (pc = "returned"), result |-> result]
                ELSE first
    /\ start_line' \in StartLines
    /\ gantry_cutoff' \in BOOLEAN
    /\ debug' \in BOOLEAN
    /\ pc' = "start"
    /\ f' = NoHandle
    /\ start_time_array' = <<>>
    /\ end_time_array' = <<>>
    /\ delta_t' = 0
    /\ line' = EmptyStr
    /\ cnt' = 0
    /\ chan' = [c \in Channels(variant) |-> <<>>]
    /\ arr' = [c \in Channels(variant) |-> <<>>]
    /\ tvals' = <<>>
    /\ tvals_gantry' = <<>>
    /\ nc_data' = <<>>
    /\ gantry_data' = <<>>
    /\ printed' = <<>>
    /\ error' = "none"
    /\ result' = <<>>
    /\ examined' = <<>>
    /\ UNCHANGED <<variant, file, numpy_ragged>>

Next ==
    \/ OpenHeader \/ ReadHeader \/ CloseHeader
    \/ ParseHeader \/ ParseHeaderRaise
    \/ OpenBody \/ ScanLine \/ ExitScan
    \/ BuildArrays \/ PackArrays \/ PackArraysRaise
    \/ SkipDebug \/ DebugPrint \/ DebugRaise
    \/ Return
    \/ NextCall

Spec == Init /\ [][Next]_vars

----------------------------------------------------------------------------
(* Vocabulary of the properties. *)

\* every token the layout of variant v requires is present and numeric
WellFormed(line_array, v) ==
    \A k \in 1..Len(Layout(v)) :
        /\ HasIndex(line_array, Layout(v)[k][2])
        /\ FloatOk(At(line_array, Layout(v)[k][2]))

\* the tokens of line n of the file
LineTokens(n) == split(file[n])

\* the channels of the fast group: the lists the cutoff never cuts
FastGroup(v) == Channels(v) \ CutChannels(v)

\* the header arithmetic raised: nothing of the body was read yet
HeaderFailed == pc = "raised" /\ cnt = 0

\* control is past the header arithmetic
PastHeader ==
    pc \notin {"start", "read_header", "close_header", "parse_header"}

\* the call is over
Done == pc \in {"returned", "raised"}

----------------------------------------------------------------------------
(* C1 .. C4 *)

\* C1: a line at or after start_line in which a required token is missing
\* or not numeric adds no entry to any channel list.
C1_RowsAtomic ==
    [][(pc = "scan" /\ pc' = "scan" /\ cnt' >= start_line
          /\ ~WellFormed(split(line'), variant)) => chan' = chan]_vars

\* C2: with gantry_cutoff set, every slow-group channel of the result has
\* exactly len(act_pos) // 5 elements, the first ones of the parsed channel
\* in their order.
C2_CutoffLength ==
    (pc = "returned" /\ gantry_cutoff) =>
        /\ \A c \in CutChannels(variant) :
              /\ Len(arr[c]) = Len(arr["act_pos"]) \div 5
              /\ arr[c] = SubSeq(chan[c], 1, Len(arr["act_pos"]) \div 5)
        /\ Len(result[2][2]) = Len(result[1][2]) \div 5
        /\ Len(result[2][3]) = Len(result[1][2]) \div 5

\* C3: in every returned result the fast time axis is as long as each
\* fast-group channel of nc_data and the gantry time axis is as long as
\* x_gantry and as y_gantry.
C3_AxisLengths ==
    pc = "returned" =>
        /\ \A i \in 1..Len(NcOrder(variant)) :
              NcOrder(variant)[i] \in FastGroup(variant)
                  => Len(result[1][i + 1]) = Len(result[1][1])
        /\ Len(result[2][2]) = Len(result[2][1])
        /\ Len(result[2][3]) = Len(result[2][1])

\* C4: when every line from start_line on is a row whose required tokens
\* are all numeric, every channel list ends with one entry per such line,
\* the i-th entry being the value of the i-th of these lines.
C4_RowsInOrder ==
    (pc = "build" /\ start_line <= Len(file)
       /\ \A n \in start_line..Len(file) : WellFormed(LineTokens(n), variant))
    => \A k \in 1..Len(Layout(variant)) :
          chan[Layout(variant)[k][1]] =
              [i \in 1..(Len(file) - start_line + 1) |->
                  float(At(LineTokens(start_line + i - 1), Layout(variant)[k][2]))]

----------------------------------------------------------------------------
(* C5 .. C10 *)

\* the hours, minutes and seconds written in the files
Triples ==
    GoodTriples \cup {<<1, 1, 1>>, <<10, 0, 3>>, <<10, 0, 4>>, <<10, 0, 10>>}

\* the (h, m, s) whose H:M:S text is the token at index 6 of line n
TriplesAt(n) ==
    IF n <= Len(file) /\ HasIndex(LineTokens(n), 6)
    THEN {t \in Triples : Time(t[1], t[2], t[3]) = At(LineTokens(n), 6)}
    ELSE {}

TotalSeconds(t) == t[1] * 3600 + t[2] * 60 + t[3]

\* C5: when lines 3 and 4 carry H:M:S at token 6, the header raises nothing
\* and delta_t is end minus start in seconds, whatever lines 1 and 2 are
\* and also when the end is earlier than the start.
C5_Duration ==
    PastHeader =>
        \A s \in TriplesAt(3), e \in TriplesAt(4) :
            /\ ~HeaderFailed
            /\ delta_t = TotalSeconds(e) - TotalSeconds(s)

\* C5 witness: a call returned a negative duration
C5_Witness ==
    /\ pc = "returned"
    /\ TriplesAt(3) # {} /\ TriplesAt(4) # {}
    /\ delta_t < 0
    /\ Len(result[1][1]) >= 2

\* the token is exactly three numeric pieces between ':'
ThreeNumeric(tok) ==
    /\ Len(split_on(tok, ":")) = 3
    /\ \A p \in 1..3 : FloatOk(split_on(tok, ":")[p])

\* the token has three pieces or more and the first three are numeric
FirstThreeNumeric(tok) ==
    /\ Len(split_on(tok, ":")) >= 3
    /\ \A p \in 1..3 : FloatOk(split_on(tok, ":")[p])

\* the header as the claim has it malformed
BadHeaderStrict ==
    \/ Len(file) < 4
    \/ \E n \in {3, 4} : n <= Len(file) /\
          (~HasIndex(LineTokens(n), 6) \/ ~ThreeNumeric(At(LineTokens(n), 6)))

\* the header as the code finds it malformed
BadHeader ==
    \/ Len(file) < 4
    \/ \E n \in {3, 4} : n <= Len(file) /\
          (~HasIndex(LineTokens(n), 6)
             \/ ~FirstThreeNumeric(At(LineTokens(n), 6)))

\* the call failed in the header: an error, no result, no row parsed
FailedInHeader ==
    /\ pc = "raised" /\ cnt = 0
    /\ error \in {"IndexError", "ValueError"}
    /\ result = <<>>
    /\ \A c \in Channels(variant) : chan[c] = <<>> /\ arr[c] = <<>>

\* C6 as stated: a time token that is not exactly three numeric pieces
\* makes the call fail in the header.
C6_Original == (PastHeader /\ BadHeaderStrict) => FailedInHeader

\* C6: with fewer than 4 lines, no token 6 on line 3 or 4, or a time token
\* with fewer than three pieces or a non-numeric piece among its first
\* three, the call fails before any row is parsed and returns nothing.
C6_HeaderFatal == (PastHeader /\ BadHeader) => FailedInHeader

\* C6 witness: a four-line header with a non-numeric time piece has failed
C6_Witness ==
    /\ FailedInHeader
    /\ Len(file) >= 4
    /\ error = "ValueError"

\* no line from start_line on has all its required tokens numeric
NoValidRow ==
    \A n \in start_line..Len(file) : ~WellFormed(LineTokens(n), variant)

\* every array of the result, the two time axes included, is empty
EmptyResult ==
    /\ result # <<>>
    /\ \A i \in 1..Len(result[1]) : result[1][i] = <<>>
    /\ \A i \in 1..Len(result[2]) : result[2][i] = <<>>

\* C7: with a valid header and no valid row, the call returns normally,
\* for every gantry_cutoff and debug, with every array and both time axes
\* empty.
C7_EmptyReturns ==
    (Done /\ ~HeaderFailed /\ NoValidRow) => (pc = "returned" /\ EmptyResult)

\* the well-formed lines the scan reads at or after start_line
ValidLines ==
    {n \in 2..Len(file) : n >= start_line /\ WellFormed(LineTokens(n), variant)}

\* C8: no body row makes the call fail, so a call fails only in the header,
\* and every well-formed row is recorded whatever rows precede it.
C8_OnlyHeaderFatal ==
    /\ pc = "raised" => HeaderFailed
    /\ pc = "build" =>
          \A c \in Channels(variant) : Len(chan[c]) >= Cardinality(ValidLines)

C10_StartLine ==
    pc = "build" =>
        /\ \A i \in 1..Len(chan["act_pos"]) :
              \E n \in start_line..Len(file) :
                  /\ HasIndex(LineTokens(n), 1)
                  /\ FloatOk(At(LineTokens(n), 1))
                  /\ chan["act_pos"][i] = float(At(LineTokens(n), 1))
        /\ (start_line <= Len(file)
              /\ HasIndex(LineTokens(start_line), 1)
              /\ FloatOk(At(LineTokens(start_line), 1)))
           => /\ chan["act_pos"] # <<>>
              /\ chan["act_pos"][1] = float(At(LineTokens(start_line), 1))

----------------------------------------------------------------------------
(* C11 *)

\* the arrays and the time axes have been built in this call
Built ==
    \/ pc \in {"pack", "debug", "return", "returned"}
    \/ pc = "raised" /\ cnt > 0

\* ax is the axis of n samples over duration d: n points, the k-th (from 0)
\* equal to k*d/(n-1) when n >= 2, the point 0 alone when n = 1
EvenAxis(ax, d, n) ==
    /\ Len(ax) = n
    /\ \A k \in 1..n : ax[k].den > 0
    /\ n = 1 => ax[1].num = 0
    /\ n >= 2 => \A k \in 1..n : ax[k].num * (n - 1) = (k - 1) * d * ax[k].den

\* C11: the time axis of a group of n samples and duration d has n points,
\* the k-th being k*d/(n-1) for n >= 2 (from 0 to d in equal steps), is
\* empty for n = 0 and is the single point 0 for n = 1.
C11_TimeAxis ==
    Built =>
        /\ EvenAxis(tvals, delta_t, Len(arr["act_pos"]))
        /\ EvenAxis(tvals_gantry, delta_t, Len(arr["x_gantry"]))

\* C11 witness: five samples over 5 s give 0, 5/4, 10/4, 15/4, 5, next to a
\* gantry axis of one point
C11_Witness ==
    /\ pc = "returned"
    /\ delta_t = 5
    /\ Len(tvals) = 5
    /\ tvals[2] = [num |-> 5, den |-> 4]
    /\ tvals[5] = [num |-> 20, den |-> 4]
    /\ Len(tvals_gantry) = 1

----------------------------------------------------------------------------
(* C13 .. C15 *)

\* C13: when control is back at the caller, by return or by an exception,
\* no handle of the call is open, the header handle is closed before the
\* body handle is opened, and no array is built before the scan has read
\* the file to its end.
C13_HandlesClosed ==
    /\ Done => ~f.open
    /\ pc \in {"parse_header", "open_body"} => ~f.open
    /\ pc \in {"build", "pack", "debug", "return", "returned"} =>
          /\ ~f.open
          /\ cnt = Len(file) + 1
          /\ line = EmptyStr
    /\ pc \in {"scan", "build"} =>
          /\ result = <<>> /\ nc_data = <<>> /\ gantry_data = <<>>
          /\ \A c \in Channels(variant) : arr[c] = <<>>

\* C13 witness: a call returned after reading a file with body rows
C13_Witness ==
    /\ pc = "returned"
    /\ ~f.open
    /\ Len(file) >= 6
    /\ cnt = Len(file) + 1
    /\ result[1][2] # <<>>

\* two fractions are the same number
FracEq(a, b) == a.num * b.den = b.num * a.den

\* ax starts at 0 and ends at d
SpansDuration(ax, d) ==
    /\ ax[1].num = 0
    /\ ax[Len(ax)].num = d * ax[Len(ax)].den

\* ax is point for point every fifth point of the fast axis
Decimated(ax, fast) ==
    \A k \in 1..Len(ax) :
        /\ GantryRatio * (k - 1) + 1 <= Len(fast)
        /\ FracEq(ax[k], fast[GantryRatio * (k - 1) + 1])

\* C14: each of the two time axes with two samples or more starts at 0 and
\* ends at the measured duration, with gantry_cutoff on and off: the gantry
\* axis is spaced over the whole duration by its own sample count.
C14_IndependentAxes ==
    Built =>
        /\ Len(tvals) >= 2 => SpansDuration(tvals, delta_t)
        /\ Len(tvals_gantry) >= 2 =>
              /\ SpansDuration(tvals_gantry, delta_t)
              /\ Len(tvals_gantry) = Len(arr["x_gantry"])
              /\ \A k \in 1..Len(tvals_gantry) :
                    tvals_gantry[k].num * (Len(tvals_gantry) - 1)
                        = (k - 1) * delta_t * tvals_gantry[k].den

\* C14 witness: with the cutoff on, a gantry axis of several points that is
\* not every fifth point of the fast axis
C14_Witness ==
    /\ pc = "returned"
    /\ gantry_cutoff
    /\ delta_t # 0
    /\ Len(tvals_gantry) >= 2
    /\ Len(tvals) > GantryRatio * (Len(tvals_gantry) - 1)
    /\ ~Decimated(tvals_gantry, tvals)

\* the position in the layout of the first token of a line that is missing
\* or not numeric; one past the layout when there is none
FirstBad(line_array, v) ==
    IF WellFormed(line_array, v) THEN Len(Layout(v)) + 1
    ELSE CHOOSE k \in 1..Len(Layout(v)) :
            /\ ~(HasIndex(line_array, Layout(v)[k][2])
                   /\ FloatOk(At(line_array, Layout(v)[k][2])))
            /\ \A j \in 1..(k - 1) :
                  /\ HasIndex(line_array, Layout(v)[j][2])
                  /\ FloatOk(At(line_array, Layout(v)[j][2]))

\* the lengths of the lists do not increase along the order of the appends
LengthsOrdered ==
    \A k \in 1..(Len(Layout(variant)) - 1) :
        Len(chan[Layout(variant)[k][1]]) >= Len(chan[Layout(variant)[k + 1][1]])

\* one line of the scan: the lists before the first bad token grow by one
\* entry each, the others do not change
PrefixStep ==
    (pc = "scan" /\ pc' = "scan") =>
        IF cnt' >= start_line
        THEN \A k \in 1..Len(Layout(variant)) :
                LET c == Layout(variant)[k][1]
                IN IF k < FirstBad(split(line'), variant)
                   THEN /\ Len(chan'[c]) = Len(chan[c]) + 1
                        /\ SubSeq(chan'[c], 1, Len(chan[c])) = chan[c]
                   ELSE chan'[c] = chan[c]
        ELSE chan' = chan

\* C15: throughout the scan the list lengths are non-increasing in the
\* order of the appends, and one line lengthens by one exactly the lists
\* before its first missing or non-numeric token and leaves the others.
C15_PrefixAppend == [](pc = "scan" => LengthsOrdered) /\ [][PrefixStep]_vars

\* C15 witness: a scan in which one row stopped at token 5 and another at
\* token 13
C15_Witness ==
    /\ pc = "scan"
    /\ Len(chan["act_pos"]) = 2 /\ Len(chan["set_pos"]) = 2
    /\ Len(chan["act_velo"]) = 1 /\ Len(chan["x_gantry"]) = 1
    /\ Len(chan["y_gantry"]) = 0

\* how many times line n was handed to the parsing of the scan
TimesExamined(n) ==
    Cardinality({i \in 1..Len(examined) : examined[i] = n})

\* a line without any token: empty, or nothing but whitespace
BlankLine(n) == split(file[n]) = <<>>

\* C17: when the scan of a file with a valid header has ended, the whole
\* file was read, and each line numbered start_line or higher was examined
\* exactly once, the lines after a blank line included, and no line below
\* start_line was.
C17_ScanComplete ==
    pc = "build" =>
        /\ cnt = Len(file) + 1
        /\ \A n \in 1..Len(file) :
              TimesExamined(n) = IF n >= start_line THEN 1 ELSE 0

\* the current call has ended and repeats the first call of the session:
\* same file, same start_line, same gantry_cutoff
RepeatsFirst ==
    /\ pc \in {"returned", "raised"}
    /\ calls >= 1
    /\ start_line = first.start_line
    /\ gantry_cutoff = first.gantry_cutoff

\* the current call ended as the first call did
SameOutcome ==
    /\ (pc = "returned") = first.returned
    /\ result = first.result

\* C12: a call that repeats the first call's file, start_line and
\* gantry_cutoff returns what the first call returned, whatever the debug
\* flags of the two calls, and no step writes the file.
C12_CallsIndependent ==
    [](RepeatsFirst => SameOutcome) /\ [][file' = file]_vars

\* the master channels
Masters == {"act_pos", "set_pos", "act_velo", "set_velo", "pos_diff"}

\* gantry_stop_idx of the current call
GantryStop == Len(chan["act_pos"]) \div GantryRatio

\* array a is list l up to, not including, python index stop
CutTo(a, l, stop) ==
    /\ Len(a) = IF stop < Len(l) THEN stop ELSE Len(l)
    /\ \A i \in 1..Len(a) : a[i] = l[i]

\* the arrays of one call against its lists
CutoffFrame ==
    /\ EvenAxis(tvals, delta_t, Len(chan["act_pos"]))
    /\ \A c \in Masters : arr[c] = chan[c]
    /\ ~gantry_cutoff => arr = chan
    /\ variant = "root" =>
          /\ arr["act_pos_slave"] = chan["act_pos_slave"]
          /\ arr["act_velo_slave"] = chan["act_velo_slave"]
          /\ arr["pos_diff_slave"] = chan["pos_diff_slave"]
          /\ gantry_cutoff =>
                \A c \in {"x_gantry", "y_gantry"} :
                    CutTo(arr[c], chan[c], GantryStop)
    /\ (variant = "MirrorPlots" /\ gantry_cutoff) =>
          \A c \in {"x_gantry", "y_gantry", "act_pos_slave", "set_pos_slave",
                     "act_velo_slave", "set_velo_slave", "pos_diff_slave"} :
              CutTo(arr[c], chan[c], GantryStop)

\* both the first call and the current one returned, on the same start_line
ReturnedTwice ==
    /\ pc = "returned"
    /\ calls >= 1
    /\ first.returned
    /\ start_line = first.start_line

\* C16: whatever gantry_cutoff is, the fast time axis has one point per
\* act_pos entry and the master channels are the parsed lists; in
\* src/plot_functions.py the three slave channels are the parsed lists too
\* and x_gantry, y_gantry are cut at gantry_stop_idx, in
\* src/MirrorPlots/plot_functions.py the five slave channels are cut at the
\* same index as x_gantry and y_gantry.  Two returned calls on one file
\* and start_line agree on the time axis and the master rows of nc_data,
\* and in src/plot_functions.py on all of nc_data, whatever their cutoffs.
C16_CutoffFrame ==
    /\ Built => CutoffFrame
    /\ ReturnedTwice =>
          /\ \A i \in 1..6 : result[1][i] = first.result[1][i]
          /\ variant = "root" => result[1] = first.result[1]

\* C16 witness: src/plot_functions.py returned with the cutoff on after a
\* first call with the cutoff off: the gantry rows differ, nc_data has an
\* entry in every row
C16_Witness ==
    /\ ReturnedTwice
    /\ variant = "root"
    /\ gantry_cutoff /\ ~first.gantry_cutoff
    /\ \A i \in 2..9 : Len(result[1][i]) = 1
    /\ first.result[2][2] # <<>>
    /\ result[2][2] = <<>>


====
